---- MODULE Spec2Model ----
(***************************************************************************)
(* A model of the P2P service (web/service/pppp.py), the video consumer    *)
(* (web/service/video.py) and the file-transfer pipeline                   *)
(* (web/service/filetransfer.py, test_transfer.py) of ankermake-m5-protocol*)
(*                                                                         *)
(* Every hook of a service is one operator over a machine record m that    *)
(* holds the objects the hook reads and writes; an action applies one hook *)
(* to the current state and stores the result.                             *)
(*                                                                         *)
(* Time is counted in whole seconds; sleeps shorter than a second take no  *)
(* time.  The code reads the clock only to compare the time elapsed since  *)
(* a recorded instant with a constant of at most 30 s, so the state keeps  *)
(* every recorded instant relative to the present: the present is always   *)
(* Horizon and an instant t seconds in the past is Horizon - t.  An        *)
(* instant is told apart from older ones only as long as its age can make  *)
(* a difference to a comparison of the code (5 s for last_cleanup_time,    *)
(* which is compared with RECONNECT_DELAY only); beyond that it is kept at *)
(* that age.  The value 0 is what the constructors store (the epoch, or    *)
(* None).                                                                  *)
(***************************************************************************)
EXTENDS Integers, Sequences, FiniteSets, TLC

VARIABLES
    config,     \* app.config / the printer entry: [has_cfg, ip_addr, pppp_dump]
    pppp,       \* the PPPPService object (pppp.py:33-47)
    sess,       \* the AnkerPPPPApi object held in pppp._api (state, stopped, ...)
    res,        \* operating-system resources: open sockets, receive workers, dumpers
    video,      \* the VideoQueue object (video.py:24-42)
    rt,         \* the service runtime: run state of each service
    obs,        \* observations of the last hook calls (what was raised, what was sent)
    xfer,       \* the send_file calls in progress (filetransfer.py:31-73)
    ft,         \* the FileTransferService object (filetransfer.py:26-29)
    wire,       \* the frames emitted on a session in use by a transfer, in order
    refs,       \* references to the 'pppp' service handed out by the registry
    limiter,    \* a RateLimiter object (test_transfer.py:15-36) and its clock
    call        \* an api_command call made on a worker of its own (pppp.py:193-206)

vars == <<config, pppp, sess, res, video, rt, obs, xfer, ft, wire, refs, limiter, call>>

----------------------------------------------------------------------------
(* Program constants *)

HEARTBEAT_INTERVAL == 15
MAX_RETRY_INTERVAL == 30
MAX_RETRY_COUNT == 5
INITIAL_RETRY_DELAY == 2
HEARTBEAT_FAIL_THRESHOLD == 3
CLEANUP_WAIT == 1
RECONNECT_DELAY == 5
CONNECT_DEADLINE == 15
BIND_ATTEMPTS == 3
BLOCKSIZE == 32768
TRANSFER_ID_LEN == 16
MBIT == 1048576

(* Bounds of the model *)

Horizon == 32        \* the present
MaxFrames == 4       \* video frames of one stream
MaxWarnings == 4     \* low-rate windows in a row
MaxRestarts == 2     \* connection attempts of one run
RunTimeout == 15     \* the timeout the runtime passes to worker_run
MaxFaults == 1       \* steps of one cleanup_connection that fail
MaxChunks == 2       \* DATA frames of one transfer
MaxWire == 6         \* frames recorded while the P2P worker runs beside a transfer
Quantum == 4         \* clock ticks of the rate limiter in a second
MaxRate == 1         \* the highest rate limit, in Mbps
MaxHandlers == 3     \* handlers registered with the P2P service
PacketWait == 7      \* seconds recv waits for a packet that comes late

Min(a, b) == IF a < b THEN a ELSE b
Max(a, b) == IF a > b THEN a ELSE b

RECURSIVE Pow2(_)
Pow2(n) == IF n = 0 THEN 1 ELSE 2 * Pow2(n - 1)

None == 0

----------------------------------------------------------------------------
(* The objects *)

Services == {"pppp", "video"}
SessIds == 1..MaxRestarts

\* PPPPState of the session, as the session layer's state machine names it
SessStates == {"Idle", "LanSearching", "Connecting", "Connected", "Closing", "Stopped"}

\* A session object nobody references
NoSess == [state |-> "Idle", stopped |-> FALSE, close_received |-> FALSE, sock |-> "none"]

\* A session object as worker_start leaves it when the handshake completes
NewSess == [state |-> "Connected", stopped |-> FALSE, close_received |-> FALSE, sock |-> "open"]

\* PPPPService.__init__
PPPPInit ==
    [retry_count |-> 0,
     last_connection_attempt |-> 0,
     last_successful_connection |-> 0,
     api |-> None,
     last_heartbeat |-> 0,
     heartbeat_fail_count |-> 0,
     total_restarts |-> 0,
     handlers |-> <<>>,
     stopping |-> FALSE,
     dumper |-> None,
     restart_pending |-> FALSE,
     last_cleanup_time |-> 0]

\* The steps of cleanup_connection whose failure changes what it leaves: an
\* error outside the guarded steps (as at line 88), api.stop() (90), setsockopt
\* (109) and dumper.close() (129).  Failing to send Close, to close a channel
\* buffer or to shut the socket down is logged and changes nothing else.
CleanupSteps == {"unexpected", "stop", "linger", "dumper"}

\* What the step just taken did, for the properties to refer to
ObsInit ==
    [svc |-> "none",          \* the service whose hook ran
     hook |-> "none",         \* the hook
     exc |-> "none",          \* what it raised
     attempt |-> FALSE,       \* worker_start made a connection attempt
     gap |-> 0,               \* time since the previous attempt, at its backoff check
     interval |-> 0,          \* the retry interval it computed
     streak_prev |-> 0,       \* failed attempts in a row before it (see streak)
     teardown |-> "none",     \* the teardown worker_run made
     hb |-> "none",           \* how its send_heartbeat call ended
     hb_gap |-> -1,           \* worker_run on a session: the time since hb_time
     cleanup |-> [called |-> FALSE, api |-> None, handlers |-> 0, sock |-> "none",
                  close |-> FALSE],
                              \* cleanup_connection returned: the session and the
                              \* number of handlers the service is left with, the
                              \* socket of the session it held, whether it sent
                              \* a Close packet
     swallowed |-> "none",    \* what a handler raised into the delivery
     log |-> <<>>,            \* worker_run's calls for the packet it received:
                              \* "process", then the handlers it called
     snapshot |-> <<>>,       \* the handlers registered when the delivery began
     pre |-> [restart_pending |-> FALSE, heartbeat_fail_count |-> 0],
                              \* the service's fields when the delivery began
     low_fps |-> FALSE,       \* a handler call met the third low-rate window
     why |-> "none",          \* why the video worker_run raised ServiceRestart
     stall_warned |-> FALSE,  \* the video worker_run logged a stall
     recovered |-> FALSE,     \* the video worker_run tried the in-band recovery
     stall_age |-> -1,        \* the video worker_run, after its wait: the time since
                              \* the last frame
     frame |-> FALSE,         \* the video handler was called with a video frame
     cmds |-> <<>>,           \* the light and mode commands the video service
                              \* sent, each with its value
     sent |-> <<>>,           \* the commands api_command sent
     fps_check |-> "none",    \* the frame-rate check the video handler made:
                              \* "skip" (quality change), "low", "mid", "ok"
     warnings_before |-> 0,   \* stall_warning_count when it made the check
     \* and, kept from step to step:
     streak |-> 0,            \* failed attempts in a row, none more than
                              \* MAX_RETRY_INTERVAL after the one before
     fails |-> 0,             \* connection attempts that failed
     wins |-> 0,              \* connection attempts that succeeded
     hb_row |-> 0,            \* failed send_heartbeat calls in a row on this
                              \* session, counted up to the threshold and one more
     hb_time |-> 0,           \* when the session held was connected or, if later,
                              \* when the last heartbeat was attempted on it
     framed |-> FALSE,        \* a video frame has come since the video worker_start
     episode |-> "none",      \* since the last video frame: "warned" when a stall
                              \* was logged, "recovered" when the recovery was tried
     want_light |-> "None",   \* the light state a client asked for last
     want_mode |-> "None"]    \* the video mode a client asked for last

\* The observations at the start of a step
Fresh(o) ==
    [ObsInit EXCEPT !.streak = o.streak, !.fails = o.fails, !.wins = o.wins,
                    !.hb_row = o.hb_row, !.hb_time = o.hb_time,
                    !.framed = o.framed, !.episode = o.episode,
                    !.want_light = o.want_light, !.want_mode = o.want_mode]

----------------------------------------------------------------------------
(* PPPPService *)

\* pppp.py:399-403
connected(m) ==
    /\ m.pppp.api # None
    /\ ~m.sess[m.pppp.api].stopped
    /\ m.sess[m.pppp.api].state = "Connected"

\* cleanup_connection that closes the socket and keeps the session
cleanup_steps_kept(m, F) ==
    IF m.pppp.api = None
    THEN m
    ELSE [m EXCEPT
            !.pppp.handlers = <<>>,
            !.pppp.dumper = None,
            !.sess[m.pppp.api].sock = "closed",
            !.res.socks = @ - 1,
            !.pppp.last_heartbeat = 0,
            !.pppp.heartbeat_fail_count = 0,
            !.pppp.last_cleanup_time = m.now]

\* pppp.py:65-171.  F: the steps that fail in this call.
cleanup_steps(m, F) ==
    IF m.pppp.api = None
    THEN m
    ELSE
      LET a == m.pppp.api
          s == m.sess[a]
      IN
      IF "unexpected" \in F
      THEN \* an error outside the guarded steps (here: at line 88): lines 148-171
           [m EXCEPT
              !.pppp.handlers = <<>>,
              !.pppp.dumper = None,
              !.sess[a].sock = "closed",
              !.res.socks = @ - 1,
              !.pppp.api = None,
              !.pppp.last_heartbeat = 0,
              !.pppp.heartbeat_fail_count = 0,
              !.pppp.last_cleanup_time = m.now]
      ELSE
      LET stops == ~s.stopped /\ "stop" \notin F             \* 88-93
          closes == "linger" \notin F                         \* 106-121
          dclose == m.pppp.dumper # None /\ "dumper" \notin F \* 127-132
      IN
           [m EXCEPT
              !.sess[a].stopped = @ \/ stops,
              !.res.threads = IF stops THEN @ - 1 ELSE @,
              !.sess[a].sock = IF closes THEN "closed" ELSE @,
              !.res.socks = IF closes THEN @ - 1 ELSE @,
              !.pppp.handlers = <<>>,                          \* 123-124
              !.res.dumpers = IF dclose THEN @ - 1 ELSE @,
              !.pppp.dumper = None,                            \* 133
              !.pppp.api = None,                               \* 136
              !.pppp.last_heartbeat = 0,                       \* 139
              !.pppp.heartbeat_fail_count = 0,                 \* 140
              !.now = @ + CLEANUP_WAIT,                        \* 142
              !.pppp.last_cleanup_time = m.now + CLEANUP_WAIT] \* 145

\* pppp.py:80-171: the steps one cleanup_connection on a held session performs,
\* in the order in which it performs them
cleanup_log(m, F) ==
    LET s == m.sess[m.pppp.api]
        close == IF s.close_received THEN <<>> ELSE <<"close">>          \* 80-82
    IN IF "unexpected" \in F
       THEN \* raised at line 88; the handler of lines 146-171
            close \o <<"handlers", "channels", "socket", "heartbeat", "cleanup_time">>
       ELSE close
            \o (IF ~s.stopped /\ "stop" \notin F THEN <<"stop">> ELSE <<>>)   \* 88-90
            \o <<"channels">>                                               \* 96-104
            \o (IF "linger" \notin F THEN <<"socket">> ELSE <<>>)           \* 106-119
            \o <<"handlers">>                                               \* 124
            \o (IF m.pppp.dumper # None /\ "dumper" \notin F
                THEN <<"dumper">> ELSE <<>>)                                \* 127-130
            \o <<"heartbeat", "cleanup_time">>                              \* 139-145

\* cleanup_connection, and what it has left when it returns
cleanup_connection(m, F) ==
    LET r == cleanup_steps(m, F)
    IN [r EXCEPT !.obs.cleanup =
           [called |-> TRUE,
            api |-> r.pppp.api,
            handlers |-> Len(r.pppp.handlers),
            sock |-> IF m.pppp.api = None THEN "none" ELSE r.sess[m.pppp.api].sock,
            close |-> /\ m.pppp.api # None                      \* 67
                      /\ ~m.sess[m.pppp.api].close_received]]   \* 80-82

\* pppp.py:175-181: the retry count get_retry_interval leaves
retry_count_checked(m) ==
    LET c1 == IF m.now - m.pppp.last_connection_attempt > MAX_RETRY_INTERVAL
              THEN 0 ELSE m.pppp.retry_count
    IN IF c1 >= MAX_RETRY_COUNT THEN 0 ELSE c1

\* The retry interval without its upper limit
retry_interval_uncapped(count) == INITIAL_RETRY_DELAY * Pow2(count)

\* pppp.py:183
retry_interval(count) == Min(INITIAL_RETRY_DELAY * Pow2(count), MAX_RETRY_INTERVAL)

\* pppp.py:173-184: [m: the state it leaves, interval: what it returns]
get_retry_interval(m) ==
    LET c == retry_count_checked(m)
    IN [m |-> [m EXCEPT !.pppp.retry_count = c], interval |-> retry_interval(c)]

\* reset_retry_count without its first assignment
reset_retry_count_kept(m) ==
    [m EXCEPT !.pppp.last_successful_connection = m.now,
              !.pppp.heartbeat_fail_count = 0]

\* pppp.py:186-191
reset_retry_count(m) ==
    [m EXCEPT !.pppp.retry_count = 0,
              !.pppp.last_successful_connection = m.now,
              !.pppp.heartbeat_fail_count = 0]

----------------------------------------------------------------------------
(* Emissions on a session *)

Transfers == 1..2

\* The lengths of the files handed to send_file: empty, one byte, whole
\* blocks, and a byte more than whole blocks, up to MaxChunks DATA frames
Sizes ==
    {0, 1} \cup {k * BLOCKSIZE : k \in 1..(MaxChunks - 1)}
           \cup {k * BLOCKSIZE + 1 : k \in 1..(MaxChunks - 1)}

\* A bytes object of length n is <<n>>; None is <<>>
Bytes(n) == <<n>>
NoBytes == <<>>

\* A send_file call that is not running.  pc: the statement it is at; api: the
\* session it took from the P2P service; fd: the length of the file handed in;
\* data: what it passed to test_transfer.send_file; pos: the loop variable;
\* exc: what it has raised
NoXfer ==
    [pc |-> "idle", api |-> None, fd |-> 0, data |-> NoBytes, pos |-> 0, exc |-> "none"]

\* Transfer t is at work on session a, from its call to its return
Borrows(m, t, a) ==
    /\ m.xfer[t].api = a
    /\ m.xfer[t].pc \notin {"idle", "done", "failed"}

\* The session records what is sent on it while a transfer is at work on it
emit(m, a, frame) ==
    IF \E t \in Transfers : Borrows(m, t, a)
    THEN [m EXCEPT !.wire = Append(@, frame)]
    ELSE m

\* A command of the control channel, as api_command sends it
Command(src, kind) == [src |-> src, kind |-> kind, len |-> 0, pos |-> 0]

\* api_command without the connection check of lines 194-196
api_command_unchecked(m, src, commandType, ok) ==
    IF ok
    THEN [m EXCEPT !.obs.sent = Append(@, commandType)]
    ELSE [m EXCEPT !.exc = "TransportError"]

\* pppp.py:193-206.  ok: whether send_xzyh succeeds.  Sets m.exc when it raises.
api_command(m, src, commandType, ok) ==
    IF m.pppp.api = None \/ ~connected(m)
    THEN [m EXCEPT !.exc = "ConnectionError"]
    ELSE IF ok
         THEN [emit(m, m.pppp.api, Command(src, commandType))
                 EXCEPT !.obs.sent = Append(@, commandType)]
         ELSE [m EXCEPT !.exc = "TransportError"]

\* One more failed send_heartbeat call in a row
another(n) == Min(n + 1, HEARTBEAT_FAIL_THRESHOLD + 1)

\* pppp.py:208-224: [m: the state it leaves, sent: what it returns]
send_heartbeat(m, ok) ==
    IF m.pppp.api = None \/ ~connected(m)
    THEN [m |-> IF m.pppp.api # None /\ m.sess[m.pppp.api].state = "Connected"
                THEN [m EXCEPT !.pppp.heartbeat_fail_count = @ + 1,
                               !.obs.hb_row = another(@)]
                ELSE [m EXCEPT !.obs.hb_row = another(@)],
          sent |-> FALSE]
    ELSE LET c == api_command(m, "pppp", "heartbeat", ok)
         IN IF c.exc = "none"
            THEN [m |-> [c EXCEPT !.pppp.heartbeat_fail_count = 0,
                                  !.obs.hb_row = 0],
                  sent |-> TRUE]
            ELSE [m |-> [c EXCEPT !.exc = "none",
                                  !.pppp.heartbeat_fail_count = @ + 1,
                                  !.obs.hb_row = another(@)],
                  sent |-> FALSE]

\* What a connection attempt meets: kind: how it ends; b: failed binds before the
\* good one; d: seconds the handshake takes
Outcomes ==
    [kind : {"connected", "refused"}, b : {0, 1}, d : {0, 1}]
    \cup [kind : {"timeout"}, b : {0}, d : {CONNECT_DEADLINE}]
    \cup [kind : {"bind"}, b : {BIND_ATTEMPTS}, d : {0}]

\* pppp.py:261-322: the attempt itself, entered at time t with the counters updated
connect(m, t, F, oc) ==
    LET id == m.pppp.total_restarts
        failed(x, e) == [cleanup_connection(x, F) EXCEPT !.exc = e]   \* 319-322
        \* 262-270: the socket
        m1 == [m EXCEPT !.res.socks = @ + 1]
    IN
    IF oc.kind = "bind"
    THEN \* 272-282: three failed binds, a wait after the first two; nothing but
         \* the frame refers to the socket, which goes with it
         failed([m EXCEPT !.now = @ + (BIND_ATTEMPTS - 1) * CLEANUP_WAIT], "OSError")
    ELSE
    LET \* 272-296: bind, session, dumper, probe, receive worker
        m2 == [m1 EXCEPT
                 !.now = @ + oc.b * CLEANUP_WAIT,
                 !.res.dumpers = IF m.config.pppp_dump THEN @ + 1 ELSE @,
                 !.pppp.dumper = IF m.config.pppp_dump THEN id ELSE @,
                 !.res.threads = @ + 1]
    IN
    CASE oc.kind = "timeout" ->
           failed([m2 EXCEPT !.now = Max(@, t + CONNECT_DEADLINE)], "TimeoutError")
      [] oc.kind = "refused" ->
           failed([m2 EXCEPT !.now = @ + oc.d], "ConnectionRefusedError")
      [] OTHER ->
           \* 314-317
           reset_retry_count(
             [m2 EXCEPT !.now = @ + oc.d,
                        !.sess[id] = NewSess,
                        !.pppp.api = id,
                        !.pppp.last_heartbeat = m2.now + oc.d,
                        !.obs.hb_time = m2.now + oc.d])

\* pppp.py:226-322.  F: the steps of cleanup_connection that fail; oc: what the
\* attempt meets.  Sets m.exc when it raises.
worker_start(m, F, oc) ==
    IF m.pppp.stopping
    THEN m
    ELSE
    LET m1 == cleanup_connection(m, F)                       \* 231
        m2 == [m1 EXCEPT !.now = @ + 2 * CLEANUP_WAIT]       \* 232
        t == m2.now                                          \* 234
        g == get_retry_interval(m2)                          \* 235
        gap == t - m2.pppp.last_connection_attempt
        k == IF gap > MAX_RETRY_INTERVAL THEN 0 ELSE m.obs.streak
        m3 == [g.m EXCEPT !.obs.gap = gap,
                          !.obs.interval = g.interval,
                          !.obs.streak_prev = k]
    IN
    IF gap < g.interval
    THEN [m3 EXCEPT !.now = @ + 1]                           \* 237-241
    ELSE
    LET m4 == [m3 EXCEPT !.pppp.last_connection_attempt = t, \* 243-245
                         !.pppp.retry_count = @ + 1,
                         !.pppp.total_restarts = @ + 1,
                         !.obs.attempt = TRUE,
                         !.obs.hb_row = 0]
        r == IF ~m.config.has_cfg \/ ~m.config.ip_addr       \* 251-259
             THEN [m4 EXCEPT !.exc = "ServiceStopped"]
             ELSE connect(m4, t, F, oc)
    IN [r EXCEPT !.obs.streak = IF r.exc = "none" THEN 0 ELSE k + 1,
                 !.obs.fails = IF r.exc = "none" THEN @ ELSE @ + 1,
                 !.obs.wins = IF r.exc = "none" THEN @ + 1 ELSE @]

----------------------------------------------------------------------------
(* VideoQueue: the object and its packet handler *)

FRAME_RATE_CHECK_INTERVAL == 5
STREAM_START_TIMEOUT == 10
STALL_THRESHOLD == 10
MIN_ACCEPTABLE_FPS == 3
WARNING_FPS == 5
PPPP_STABILITY_WAIT == 2
QUALITY_CHANGE_TIMEOUT == 5
STALL_WARNING_LIMIT == 3
START_REQUEST_DEBOUNCE == 1
WARNING_PERIOD == 5

\* VideoQueue.__init__ (video.py:24-42), at time t.  The uptime only feeds log
\* lines and is left out.
VideoInit(t) ==
    [stream_start_time |-> None,
     first_frame_received |-> FALSE,
     total_frames |-> 0,
     stream_start_timestamp |-> FALSE,
     stall_warning_count |-> 0,
     last_warning_time |-> 0,
     video_enabled |-> FALSE,
     frame_count |-> 0,
     last_frame_check |-> t,
     last_frame_time |-> t,
     pppp |-> FALSE,
     quality_change_time |-> None,
     last_start_request |-> 0,
     saved_light_state |-> "None",
     saved_video_mode |-> "None",
     api_id |-> None]

\* video.py:131-187.  chan: the packet's channel; xzyh: whether it is a video frame.
\* Sets m.exc when it raises.
_handler(m, chan, xzyh) ==
    IF chan # 1 \/ ~xzyh
    THEN m
    ELSE
    LET v == m.video
        t == m.now                                            \* 141
        count == v.frame_count + 1                            \* 142
        elapsed == t - v.last_frame_check                     \* 156
        skip == v.quality_change_time # None                  \* 166
                /\ t - v.quality_change_time < QUALITY_CHANGE_TIMEOUT
        low == count < MIN_ACCEPTABLE_FPS * elapsed           \* 172: count / elapsed < 3
        warn == count < WARNING_FPS * elapsed                 \* 170
        m1 == [m EXCEPT !.video.frame_count = count,
                        !.video.total_frames = @ + 1,         \* 143
                        !.video.first_frame_received = TRUE,  \* 146-147
                        !.obs.frame = TRUE,
                        !.obs.framed = TRUE,
                        !.obs.episode = "none"]
        m2 == [m1 EXCEPT !.obs.fps_check = IF skip THEN "skip"
                                           ELSE IF warn /\ low THEN "low"
                                           ELSE IF warn THEN "mid" ELSE "ok",
                         !.obs.warnings_before = v.stall_warning_count]
    IN
    IF elapsed >= FRAME_RATE_CHECK_INTERVAL                   \* 155
    THEN IF ~skip /\ warn /\ low /\ v.stall_warning_count + 1 >= STALL_WARNING_LIMIT
         THEN \* 173-176: raises before the window is reset
              [m2 EXCEPT !.video.stall_warning_count = @ + 1,
                         !.obs.low_fps = TRUE,
                         !.exc = "ServiceRestart"]
         ELSE [m2 EXCEPT !.video.stall_warning_count =
                             IF skip THEN @
                             ELSE IF warn /\ low THEN @ + 1 ELSE 0,
                         !.video.frame_count = 0,             \* 183
                         !.video.last_frame_check = t,        \* 184
                         !.video.last_frame_time = t]         \* 186
    ELSE [m1 EXCEPT !.video.last_frame_time = t]

----------------------------------------------------------------------------
(* PPPPService.worker_run and worker_stop *)

\* What recv meets: kind: a timeout, a packet, a connection reset or another
\* error; chan, xzyh: the packet; wait: seconds recv blocked; raises: whether a
\* handler other than the video consumer's raises on the packet; race: what
\* another worker does to the handler list while the packet is delivered
Events(timeout) ==
    [kind : {"timeout"}, chan : {0}, xzyh : {FALSE},
     wait : {Min(timeout, HEARTBEAT_INTERVAL)}, raises : {FALSE}, race : {"none"}]
    \cup [kind : {"packet"}, chan : {0, 1}, xzyh : BOOLEAN, wait : {0},
          raises : {FALSE}, race : {"none"}]
    \cup [kind : {"reset", "error"}, chan : {0}, xzyh : {FALSE}, wait : {0},
          raises : {FALSE}, race : {"none"}]

\* pppp.py:369: the handler h called with the packet
call_handler(m, h, ev) ==
    IF h = "video"
    THEN _handler(m, ev.chan, ev.xzyh)
    ELSE IF ev.raises THEN [m EXCEPT !.exc = "HandlerError"] ELSE m

\* What another worker does to the handler list: it registers a handler
\* (video.py:212), removes the one registered first (video.py:323-324), or
\* clears the list (pppp.py:123-124)
another_worker(m, race) ==
    CASE race = "append" -> [m EXCEPT !.pppp.handlers = Append(@, "other")]
      [] race = "remove" -> [m EXCEPT !.pppp.handlers = IF @ = <<>> THEN @ ELSE Tail(@)]
      [] race = "clear" -> [m EXCEPT !.pppp.handlers = <<>>]
      [] OTHER -> m

\* pppp.py:367-371 with the loop over the list itself, not over a copy of it
RECURSIVE deliver_live(_, _, _)
deliver_live(m, hs, ev) ==
    LET i == Len(m.obs.log)
    IN IF i > Len(m.pppp.handlers)
       THEN m
       ELSE LET h == m.pppp.handlers[i]
                r == call_handler(m, h, ev)
                r1 == [r EXCEPT !.exc = "none",
                                !.obs.swallowed = IF r.exc # "none" THEN r.exc ELSE @,
                                !.obs.log = Append(@, h)]
            IN deliver_live(IF i = 1 THEN another_worker(r1, ev.race) ELSE r1, hs, ev)

\* pppp.py:367-371: each handler of the copy hs, in order; what one raises is
\* logged and dropped.  The other worker acts after the first call.
RECURSIVE deliver(_, _, _)
deliver(m, hs, ev) ==
    IF hs = <<>>
    THEN m
    ELSE LET h == Head(hs)
             r == call_handler(m, h, ev)
             r1 == [r EXCEPT !.exc = "none",
                             !.obs.swallowed = IF r.exc # "none" THEN r.exc ELSE @,
                             !.obs.log = Append(@, h)]
         IN deliver(IF Len(m.obs.log) = 1 THEN another_worker(r1, ev.race) ELSE r1,
                    Tail(hs), ev)

\* pppp.py:365-366: the packet is processed, the delivery begins
process(m) ==
    [m EXCEPT !.obs.log = <<"process">>,
              !.obs.snapshot = m.pppp.handlers,
              !.obs.pre = [restart_pending |-> m.pppp.restart_pending,
                           heartbeat_fail_count |-> m.pppp.heartbeat_fail_count]]

\* pppp.py:389-391
raise_if_pending(m) ==
    IF m.pppp.restart_pending /\ ~m.pppp.stopping
    THEN [m EXCEPT !.pppp.restart_pending = FALSE, !.exc = "ServiceRestart"]
    ELSE m

\* cleanup_connection, then restart_pending = True (pppp.py:347-348, 356-357, 377-378, 384-385)
teardown(m, F, why) ==
    [cleanup_connection(m, F) EXCEPT !.pppp.restart_pending = TRUE,
                                     !.obs.teardown = why]

\* pppp.py:352 with the interval a second short
heartbeat_due_early(m) ==
    m.now - m.pppp.last_heartbeat >= HEARTBEAT_INTERVAL - 1

\* pppp.py:352
heartbeat_due(m) ==
    m.now - m.pppp.last_heartbeat >= HEARTBEAT_INTERVAL

\* worker_run that does not look at the stopping flag
stopping_ignored(m) == FALSE

\* pppp.py:326
stopping_set(m) == m.pppp.stopping

\* pppp.py:324-391.  ok: whether a heartbeat's send succeeds; ev: what recv meets;
\* nap: whether the 0.1 s sleep of line 336 ends in the next second.
worker_run(m, timeout, F, ok, ev, nap) ==
    LET m0 == m
        p == m0.pppp
    IN
    IF stopping_set(m0) THEN m0                                         \* 326-327
    ELSE IF p.api = None
    THEN IF m0.now - p.last_cleanup_time < RECONNECT_DELAY              \* 333-338
         THEN [m0 EXCEPT !.now = @ + nap]
         ELSE [m0 EXCEPT !.pppp.restart_pending = TRUE]                 \* 341-343
    ELSE IF m0.sess[p.api].stopped THEN teardown(m0, F, "stopped")      \* 345-349
    ELSE
    LET t == m0.now                                                     \* 351
        due == heartbeat_due(m0)                                        \* 352
        mh == [m0 EXCEPT !.obs.hb_gap = t - m0.obs.hb_time]
        h == send_heartbeat([mh EXCEPT !.obs.hb_time = t], ok)
    IN
    IF due /\ ~h.sent /\ h.m.pppp.heartbeat_fail_count >= HEARTBEAT_FAIL_THRESHOLD
    THEN teardown([h.m EXCEPT !.obs.hb = "failed"], F, "heartbeat")     \* 354-358
    ELSE
    LET m1 == IF due                                                    \* 359
              THEN [h.m EXCEPT !.pppp.last_heartbeat = t,
                               !.obs.hb = IF h.sent THEN "sent" ELSE "failed"]
              ELSE mh
        m2 == [m1 EXCEPT !.now = @ + ev.wait]                           \* 364
    IN
    CASE ev.kind = "reset" -> teardown(m2, F, "reset")                  \* 375-379
      [] ev.kind = "error" ->                                           \* 380-386
           LET m3 == [m2 EXCEPT !.pppp.heartbeat_fail_count = @ + 1]
           IN IF m3.pppp.heartbeat_fail_count >= HEARTBEAT_FAIL_THRESHOLD
              THEN teardown(m3, F, "error")
              ELSE raise_if_pending(m3)
      [] ev.kind = "packet" ->                                          \* 365-371
           raise_if_pending(deliver(process(m2), m2.pppp.handlers, ev))
      [] OTHER -> raise_if_pending(m2)

\* pppp.py:393-397
worker_stop(m, F) ==
    LET m1 == [m EXCEPT !.pppp.stopping = TRUE]
    IN [cleanup_connection(m1, F) EXCEPT !.pppp.stopping = FALSE]

----------------------------------------------------------------------------
(* VideoQueue: commands and hooks.  ok: whether the command's send succeeds. *)

\* video.py:44-71
api_start_live(m, ok) ==
    IF ~m.video.pppp \/ ~connected(m)
    THEN m
    ELSE IF m.now - m.video.last_start_request < START_REQUEST_DEBOUNCE
    THEN m
    ELSE LET m1 == [m EXCEPT !.video.last_start_request = m.now]
             c == api_command(m1, "video", "START_LIVE", ok)
         IN IF c.exc = "none"
            THEN [c EXCEPT !.video.stream_start_time = m.now,
                           !.video.stream_start_timestamp = TRUE,
                           !.video.first_frame_received = FALSE,
                           !.video.total_frames = 0,
                           !.video.frame_count = 0,
                           !.video.last_frame_check = m.now]
            ELSE [c EXCEPT !.exc = "none"]

\* video.py:73-86
api_stop_live(m, ok) ==
    IF ~m.video.pppp
    THEN m
    ELSE LET c == api_command(m, "video", "CLOSE_LIVE", ok)
         IN IF c.exc = "none"
            THEN [c EXCEPT !.video.stream_start_timestamp = FALSE,
                           !.video.first_frame_received = FALSE]
            ELSE [c EXCEPT !.exc = "none"]

\* video.py:88-99
api_light_state(m, light, ok) ==
    IF ~m.video.pppp \/ ~connected(m)
    THEN m
    ELSE LET m1 == [m EXCEPT !.video.saved_light_state = light]         \* 94
             c == api_command(m1, "video", "LIGHT_STATE_SWITCH", ok)    \* 95-97
         IN IF c.exc = "none"
            THEN [c EXCEPT !.obs.cmds = Append(@, <<"LIGHT_STATE_SWITCH", light>>)]
            ELSE [c EXCEPT !.exc = "none"]                              \* 98-99

\* video.py:101-113
api_video_mode(m, mode, ok) ==
    IF ~m.video.pppp \/ ~connected(m)
    THEN m
    ELSE LET m1 == [m EXCEPT !.video.saved_video_mode = mode]           \* 108
             c == api_command(m1, "video", "LIVE_MODE_SET", ok)         \* 109-111
         IN IF c.exc = "none"
            THEN [c EXCEPT !.obs.cmds = Append(@, <<"LIVE_MODE_SET", mode>>)]
            ELSE [c EXCEPT !.exc = "none"]                              \* 112-113

\* The sends of one hook that succeed
Oks == [start : BOOLEAN, stop : BOOLEAN, light : BOOLEAN, mode : BOOLEAN]

\* list.remove: the first occurrence of h, if any
RECURSIVE remove(_, _)
remove(hs, h) ==
    IF hs = <<>> THEN <<>>
    ELSE IF Head(hs) = h THEN Tail(hs)
    ELSE <<Head(hs)>> \o remove(Tail(hs), h)

\* video.py:189-197
worker_init(m) ==
    [m EXCEPT !.video.saved_light_state = "None",
              !.video.saved_video_mode = "None",
              !.video.frame_count = 0,
              !.video.last_frame_check = m.now,
              !.video.last_frame_time = m.now,
              !.video.pppp = FALSE,
              !.video.quality_change_time = None]

\* video.py:199-230.  avail: whether the registry has the 'pppp' service.
video_worker_start(m, avail, ok) ==
    IF ~m.video.video_enabled
    THEN m                                                             \* 201-202
    ELSE IF ~avail
    THEN m                                                             \* 206-209
    ELSE
    LET m1 == [m EXCEPT !.refs = @ + 1,                                \* 206
                        !.obs.framed = FALSE,
                        !.obs.episode = "none",
                        !.video.pppp = TRUE,
                        !.video.api_id = m.pppp.api,                   \* 211
                        !.pppp.handlers = Append(@, "video")]          \* 212
        m2 == api_start_live(m1, ok.start)                             \* 215
        m3 == IF m2.video.saved_light_state # "None"                   \* 218-219
              THEN api_light_state(m2, m2.video.saved_light_state, ok.light)
              ELSE m2
    IN IF m3.video.saved_video_mode # "None"                           \* 221-222
       THEN api_video_mode(m3, m3.video.saved_video_mode, ok.mode)
       ELSE m3

\* video.py:232-240: up to the idle wait.  [m, idle: whether it went on to idle]
video_worker_run_enter(m) ==
    IF ~m.video.video_enabled THEN [m |-> m, idle |-> FALSE]           \* 233-234
    ELSE IF ~m.video.pppp \/ ~connected(m)
    THEN [m |-> m, idle |-> FALSE]                                     \* 236-238
    ELSE [m |-> m, idle |-> TRUE]                                      \* 240

\* The stall test with every threshold taken as the first one
stall_level_flat(v, t, n) == t - v.last_frame_time > STALL_THRESHOLD

\* video.py:289, 301, 312: more than n stall thresholds since the last frame
stall_level(v, t, n) == t - v.last_frame_time > STALL_THRESHOLD * n

\* video.py:242-314: after the idle wait.  Sets m.exc when it raises.
video_worker_run_resume(m0, ok) ==
    LET v == m0.video
        t == m0.now                                                    \* 242
        m == [m0 EXCEPT !.obs.stall_age = t - v.last_frame_time]
    IN
    IF ~v.first_frame_received /\ v.stream_start_time = None
    THEN [m EXCEPT !.exc = "TypeError"]                                \* 246: now - None
    ELSE IF ~v.first_frame_received /\ t - v.stream_start_time > STREAM_START_TIMEOUT
    THEN IF v.video_enabled
         THEN [m EXCEPT !.exc = "ServiceRestart", !.obs.why = "start_timeout"] \* 255-256
         ELSE m
    ELSE IF ~connected(m)                                              \* 260-272
    THEN IF v.video_enabled
         THEN [m EXCEPT !.exc = "ServiceRestart", !.obs.why = "connection_lost"]
         ELSE m
    ELSE IF m.pppp.api # v.api_id                                      \* 275-286
    THEN LET m1 == [m EXCEPT !.now = @ + PPPP_STABILITY_WAIT]
         IN IF v.video_enabled
            THEN [m1 EXCEPT !.exc = "ServiceRestart", !.obs.why = "new_session"]
            ELSE m1
    ELSE IF v.first_frame_received /\ stall_level(v, t, 1)             \* 289
            /\ t - v.last_warning_time >= WARNING_PERIOD               \* 290
    THEN LET m1 == [m EXCEPT !.video.last_warning_time = t,            \* 300
                             !.obs.stall_warned = TRUE,
                             !.obs.episode = IF @ = "none" THEN "warned" ELSE @]
         IN IF stall_level(v, t, 2) /\ v.video_enabled                 \* 301-302
            THEN LET m2 == api_stop_live(m1, ok.stop)                  \* 305
                     m3 == api_start_live(m2, ok.start)                \* 307
                     m4 == [m3 EXCEPT !.now = @ + 2,                   \* 306, 308
                                      !.obs.recovered = TRUE,
                                      !.obs.episode = "recovered"]
                 IN IF stall_level(m4.video, t, 3)                     \* 312
                    THEN [m4 EXCEPT !.exc = "ServiceRestart", !.obs.why = "stall"]
                    ELSE m4
            ELSE m1
    ELSE m

\* worker_stop without app.svc.put
video_worker_stop_held(m, ok) ==
    IF m.video.pppp
    THEN LET m1 == api_stop_live(m, ok.stop)
         IN [m1 EXCEPT !.pppp.handlers = remove(@, "video"),
                       !.video.pppp = FALSE]
    ELSE m

\* video.py:316-329
video_worker_stop(m, ok) ==
    IF m.video.pppp
    THEN LET m1 == api_stop_live(m, ok.stop)                           \* 319
         IN [m1 EXCEPT !.pppp.handlers = remove(@, "video"),           \* 323-324
                       !.refs = @ - 1,                                 \* 325
                       !.video.pppp = FALSE]                           \* 326
    ELSE m

----------------------------------------------------------------------------
(* File transfers (web/service/filetransfer.py, test_transfer.py) *)

\* A frame of the bulk channel, as aabb_request sends it
Frame(src, kind, len, pos) == [src |-> src, kind |-> kind, len |-> len, pos |-> pos]

\* The wait loop of both send_file functions (filetransfer.py:42-45,
\* test_transfer.py:42-45): "go" when the session is Connected, "raise" when
\* its receive worker has stopped, "sleep" otherwise
wait_connected(m, a) ==
    IF m.sess[a].state = "Connected" THEN "go"
    ELSE IF m.sess[a].stopped THEN "raise"
    ELSE "sleep"

\* Call t notes exc and goes on with its next statement
raise_in_try_resumed(m, t, exc) ==
    [m EXCEPT !.xfer[t].exc = exc]

\* Call t raises exc inside the try block of filetransfer.py:50-73
raise_in_try(m, t, exc) ==
    [m EXCEPT !.xfer[t].pc = "finally", !.xfer[t].exc = exc]

\* filetransfer.py:33-38: the service is taken from the registry, its session
\* read; the ConnectionError is raised outside the try block that puts it back
send_file_get(m, t, n) ==
    LET m1 == [m EXCEPT !.refs = @ + 1,                                \* 35
                        !.xfer[t].fd = n,
                        !.xfer[t].api = m.pppp.api]                    \* 36
    IN IF m.pppp.api = None                                            \* 37-38
       THEN [m1 EXCEPT !.xfer[t].pc = "failed", !.xfer[t].exc = "ConnectionError"]
       ELSE [m1 EXCEPT !.xfer[t].pc = "wait"]

\* filetransfer.py:42-48
send_file_wait(m, t) ==
    LET w == wait_connected(m, m.xfer[t].api)
    IN CASE w = "go" -> [m EXCEPT !.xfer[t].pc = "cache"]
         [] w = "raise" ->
              [m EXCEPT !.xfer[t].pc = "failed", !.xfer[t].exc = "ConnectionError"]
         [] OTHER -> m

\* filetransfer.py:52-60
send_file_cache(m, t) ==
    [m EXCEPT !.ft.cached_file = Bytes(m.xfer[t].fd), !.xfer[t].pc = "call"]

\* filetransfer.py:63: the arguments of test_send_file are evaluated
send_file_call(m, t) ==
    [m EXCEPT !.xfer[t].data = m.ft.cached_file, !.xfer[t].pc = "request"]

\* test_transfer.py:42-55.  ok: whether send_xzyh succeeds
test_send_file_request(m, t, ok) ==
    LET a == m.xfer[t].api
        w == wait_connected(m, a)
    IN CASE w = "go" ->
              IF ok
              THEN [emit(m, a, Frame(t, "SEND_FILE", TRANSFER_ID_LEN, 0))
                      EXCEPT !.xfer[t].pc = "begin"]
              ELSE raise_in_try(m, t, "TransportError")
         [] w = "raise" -> raise_in_try(m, t, "ConnectionError")
         [] OTHER -> m

\* test_transfer.py:58-62.  ok: whether aabb_request succeeds.  The metadata
\* end with a zero byte.
test_send_file_begin(m, t, ok) ==
    IF ok
    THEN [emit(m, m.xfer[t].api, Frame(t, "BEGIN", 1, 0))
            EXCEPT !.xfer[t].pc = "data", !.xfer[t].pos = 0]
    ELSE raise_in_try(m, t, "TransportError")

\* test_transfer.py:72 with a slice one byte short of a block
chunk_short(n, pos) == Min(BLOCKSIZE - 1, n - pos)

\* test_transfer.py:72: the length of the slice data[pos:pos + blocksize] of n bytes
chunk(n, pos) == Min(BLOCKSIZE, n - pos)

\* test_transfer.py:66-90, one turn: len(None) raises at 67, the loop sends the
\* chunk at pos (71-86), or END is sent after it (90)
test_send_file_data(m, t, ok) ==
    LET x == m.xfer[t]
    IN IF x.data = NoBytes
       THEN raise_in_try(m, t, "TypeError")                            \* 67
       ELSE IF ~ok
       THEN raise_in_try(m, t, "TransportError")
       ELSE IF x.pos < x.data[1]                                       \* 71
       THEN [emit(m, x.api, Frame(t, "DATA", chunk(x.data[1], x.pos), x.pos))
               EXCEPT !.xfer[t].pos = @ + BLOCKSIZE]                   \* 72-81
       ELSE [emit(m, x.api, Frame(t, "END", 0, 0))                     \* 90
               EXCEPT !.xfer[t].pc = "finally"]

\* filetransfer.py:64-73
send_file_finally(m, t) ==
    [m EXCEPT !.ft.cached_file = NoBytes,                              \* 71-72
              !.refs = @ - 1,                                          \* 73
              !.xfer[t].pc = IF m.xfer[t].exc = "none" THEN "done" ELSE "failed"]

----------------------------------------------------------------------------
(* RateLimiter (test_transfer.py:15-36).  Its clock counts ticks of         *)
(* 1 / Quantum s; instants are kept relative to the present: since is the   *)
(* time passed since last_check (all that is 1 s or more is alike), recent  *)
(* the bytes admitted at the present tick and at each of the Quantum - 1    *)
(* ticks before it.                                                         *)

\* test_transfer.py:16-19
RateLimiterInit(rate_mbps) ==
    [rate_mbps |-> rate_mbps,
     rate_bytes |-> (rate_mbps * MBIT) \div 8,                         \* 17
     since |-> 0,
     bytes_sent |-> 0,
     recent |-> [i \in 1..Quantum |-> 0]]

\* d ticks pass on the clock of limiter l
elapse(l, d) ==
    [l EXCEPT !.since = Min(@ + d, Quantum),
              !.recent = [i \in 1..Quantum |-> IF i > d THEN l.recent[i - d] ELSE 0]]

\* The limiter l charged with chunk_size bytes at the present tick
charge(l, chunk_size) ==
    [l EXCEPT !.bytes_sent = @ + chunk_size,                           \* 36
              !.recent[1] = @ + chunk_size]

\* test_transfer.py:21-36
RateLimiter_wait(l, chunk_size) ==
    IF l.since >= Quantum                                              \* 25
    THEN charge([l EXCEPT !.bytes_sent = 0, !.since = 0], chunk_size)  \* 27-28
    ELSE IF l.bytes_sent + chunk_size > l.rate_bytes                   \* 29
    THEN charge([elapse(l, Quantum - l.since)                          \* 31-32
                   EXCEPT !.bytes_sent = 0, !.since = 0], chunk_size)  \* 33-34
    ELSE charge(l, chunk_size)

----------------------------------------------------------------------------
(* api_command step by step (pppp.py:193-206, 399-403): every read of       *)
(* self._api is a step of its own, so that another worker's                 *)
(* cleanup_connection can come between two of them                          *)

\* No call under way.  pc: the read the call is at; exc: what it raised; at:
\* where it raised (the connection check, the send); was_connected: whether
\* the service was connected when the call was made
NoCall == [pc |-> "idle", exc |-> "none", at |-> "none", was_connected |-> FALSE]

\* The call raises exc
call_raises(m, exc, at) ==
    [m EXCEPT !.call.pc = "raised", !.call.exc = exc, !.call.at = at]

\* pppp.py:194, first operand: not self._api
api_command_enter(m) ==
    LET m1 == [m EXCEPT !.call = [NoCall EXCEPT !.was_connected = connected(m)]]
    IN IF m.pppp.api = None
       THEN call_raises(m1, "ConnectionError", "check")                \* 195-196
       ELSE [m1 EXCEPT !.call.pc = "is_not_none"]

\* pppp.py:401: self._api is not None
connected_is_not_none(m) ==
    IF m.pppp.api = None
    THEN call_raises(m, "ConnectionError", "check")
    ELSE [m EXCEPT !.call.pc = "stopped"]

\* pppp.py:402: not self._api.stopped.is_set()
connected_stopped(m) ==
    IF m.pppp.api = None
    THEN call_raises(m, "AttributeError", "check")
    ELSE IF m.sess[m.pppp.api].stopped
    THEN call_raises(m, "ConnectionError", "check")
    ELSE [m EXCEPT !.call.pc = "state"]

\* pppp.py:403: self._api.state == PPPPState.Connected
connected_state(m) ==
    IF m.pppp.api = None
    THEN call_raises(m, "AttributeError", "check")
    ELSE IF m.sess[m.pppp.api].state # "Connected"
    THEN call_raises(m, "ConnectionError", "check")
    ELSE [m EXCEPT !.call.pc = "send"]

\* pppp.py:198-206: self._api.send_xzyh(...).  ok: whether the send succeeds
api_command_send(m, ok) ==
    IF m.pppp.api = None
    THEN call_raises(m, "AttributeError", "send")
    ELSE IF ok
    THEN [m EXCEPT !.call.pc = "returned"]
    ELSE call_raises(m, "TransportError", "send")

----------------------------------------------------------------------------
(* The service runtime (section 4.2 of the specification; web/lib/service.py *)
(* is not part of the sources)                                              *)

RunStates == {"Stopped", "Starting", "Running", "Stopping"}

\* A service at rest
RtInit ==
    [state |-> "Stopped", wanted |-> FALSE, idle |-> FALSE, inited |-> FALSE,
     open |-> 0]    \* open: normal returns of worker_start less calls of worker_stop

\* After worker_start: Running when it returned; Stopped for good on
\* ServiceStopped; another start scheduled on any other error
after_start(r, exc) ==
    CASE exc = "none" -> [r EXCEPT !.state = "Running", !.inited = TRUE, !.open = @ + 1]
      [] exc = "ServiceStopped" ->
           [r EXCEPT !.state = "Stopped", !.inited = TRUE, !.wanted = FALSE]
      [] OTHER -> [r EXCEPT !.state = "Starting", !.inited = TRUE]

\* After worker_run: it goes on when it returned; worker_stop is due when it
\* raised, and no new start after ServiceStopped
after_run(r, exc) ==
    CASE exc = "none" -> IF r.wanted THEN r ELSE [r EXCEPT !.state = "Stopping"]
      [] exc = "ServiceStopped" -> [r EXCEPT !.state = "Stopping", !.wanted = FALSE]
      [] OTHER -> [r EXCEPT !.state = "Stopping"]

\* After worker_stop: a new start when the service is still wanted
after_stop(r) ==
    [r EXCEPT !.state = IF r.wanted THEN "Starting" ELSE "Stopped",
              !.open = @ - 1]

\* Service.start
start(r) == IF r.state = "Stopped" THEN [r EXCEPT !.state = "Starting", !.wanted = TRUE] ELSE r

\* Service.stop: worker_stop is due as soon as the hook under way, if any, has returned
stop(r) ==
    IF r.state = "Running"
    THEN [r EXCEPT !.wanted = FALSE, !.state = IF r.idle THEN @ ELSE "Stopping"]
    ELSE r

----------------------------------------------------------------------------
(* States and steps *)

\* The state the hooks work on; exc: what the hook under way has raised
Cur ==
    [now |-> Horizon, config |-> config, pppp |-> pppp, sess |-> sess, res |-> res,
     video |-> video, rt |-> rt, obs |-> Fresh(obs), xfer |-> xfer, ft |-> ft,
     wire |-> wire, refs |-> refs, limiter |-> limiter, call |-> call,
     exc |-> "none"]

\* A session object is dropped with its last reference
Collect(m) ==
    [a \in SessIds |->
        IF m.pppp.api = a \/ \E t \in Transfers : m.xfer[t].api = a
        THEN m.sess[a] ELSE NoSess]

\* An instant t recorded before d seconds passed, as it is kept after them;
\* keep: the age up to which it is told apart from older instants
Back(t, d, keep) == IF t = 0 THEN 0 ELSE Max(Horizon - keep, t - d)

\* The PPPPService object with the present moved on by d seconds
RebasePPPP(p, d) ==
    [p EXCEPT !.last_connection_attempt = Back(@, d, MAX_RETRY_INTERVAL + 1),
              !.last_successful_connection = Back(@, d, 1),
              !.last_heartbeat = Back(@, d, HEARTBEAT_INTERVAL),
              !.last_cleanup_time = Back(@, d, RECONNECT_DELAY)]

\* The VideoQueue object with the present moved on by d seconds
RebaseVideo(v, d) ==
    [v EXCEPT !.stream_start_time = Back(@, d, STREAM_START_TIMEOUT + 1),
              !.last_warning_time = Back(@, d, WARNING_PERIOD),
              !.last_frame_check = Back(@, d, Max(FRAME_RATE_CHECK_INTERVAL,
                                              MaxFrames \div MIN_ACCEPTABLE_FPS + 1)),
              !.last_frame_time = Back(@, d, 3 * STALL_THRESHOLD + 1),
              !.quality_change_time = Back(@, d, QUALITY_CHANGE_TIMEOUT),
              !.last_start_request = Back(@, d, START_REQUEST_DEBOUNCE)]

\* The state a hook leaves
Commit(m) ==
    /\ config' = m.config
    /\ pppp' = RebasePPPP(m.pppp, m.now - Horizon)
    /\ sess' = Collect(m)
    /\ res' = m.res
    /\ video' = RebaseVideo(m.video, m.now - Horizon)
    /\ rt' = m.rt
    /\ obs' = [m.obs EXCEPT !.hb_time = Back(@, m.now - Horizon, HEARTBEAT_INTERVAL)]
    /\ xfer' = m.xfer
    /\ ft' = m.ft
    /\ limiter' = m.limiter
    /\ call' = m.call
    /\ wire' = m.wire
    /\ refs' = m.refs

\* The hook of service s that has just run, what it raised, and the run state after it
Hooked(m, s, hook, r) ==
    [m EXCEPT !.obs.svc = s, !.obs.hook = hook, !.obs.exc = m.exc, !.rt[s] = r,
              !.exc = "none"]

Faults == {F \in SUBSET CleanupSteps : Cardinality(F) <= MaxFaults}

Configs ==
    {[has_cfg |-> TRUE, ip_addr |-> TRUE, pppp_dump |-> TRUE],
     [has_cfg |-> TRUE, ip_addr |-> TRUE, pppp_dump |-> FALSE],
     [has_cfg |-> TRUE, ip_addr |-> FALSE, pppp_dump |-> FALSE],
     [has_cfg |-> FALSE, ip_addr |-> FALSE, pppp_dump |-> FALSE]}

Init ==
    /\ config \in Configs
    /\ pppp = PPPPInit
    /\ sess = [a \in SessIds |-> NoSess]
    /\ res = [socks |-> 0, threads |-> 0, dumpers |-> 0]
    /\ video = RebaseVideo(VideoInit(Horizon), Horizon - 1)
    /\ rt = [s \in Services |-> RtInit]
    /\ obs = ObsInit
    /\ xfer = [t \in Transfers |-> NoXfer]
    /\ ft = [cached_file |-> NoBytes]
    /\ limiter = RateLimiterInit(MaxRate)
    /\ call = NoCall
    /\ wire = <<>>
    /\ refs = 0

\* A second passes
Tick ==
    Commit([Cur EXCEPT !.now = @ + 1])

\* The runtime is asked to start or to stop service s
SvcStart(s) ==
    /\ rt[s].state = "Stopped"
    /\ Commit([Cur EXCEPT !.rt[s] = start(@)])

SvcStop(s) ==
    /\ rt[s].state = "Running"
    /\ rt[s].wanted
    /\ Commit([Cur EXCEPT !.rt[s] = stop(@)])

\* The P2P service's hooks, as its runtime calls them
PPPPStart(cap, F, oc) ==
    /\ rt["pppp"].state = "Starting"
    /\ pppp.total_restarts < cap
    /\ LET m == worker_start(Cur, F, oc)
       IN Commit(Hooked(m, "pppp", "worker_start", after_start(rt["pppp"], m.exc)))

PPPPRun(F, ok, ev, nap) ==
    /\ rt["pppp"].state = "Running"
    /\ LET m == worker_run(Cur, RunTimeout, F, ok, ev, nap)
       IN Commit(Hooked(m, "pppp", "worker_run", after_run(rt["pppp"], m.exc)))

PPPPStop(F) ==
    /\ rt["pppp"].state = "Stopping"
    /\ LET m == worker_stop(Cur, F)
       IN Commit(Hooked(m, "pppp", "worker_stop", after_stop(rt["pppp"])))

\* The session layer: the peer closes the session the service holds
PeerClose ==
    /\ pppp.api # None
    /\ sess[pppp.api].state = "Connected"
    /\ Commit([Cur EXCEPT !.sess[pppp.api].state = "Closing",
                           !.sess[pppp.api].close_received = TRUE])

\* The session layer: the receive worker of the held session ends
SessionStop ==
    /\ pppp.api # None
    /\ ~sess[pppp.api].stopped
    /\ Commit([Cur EXCEPT !.sess[pppp.api].stopped = TRUE,
                           !.sess[pppp.api].state = IF @ = "Closing" THEN "Stopped" ELSE @,
                           !.res.threads = @ - 1])

\* The video service's hooks, as its runtime calls them
VideoStart(avail, ok) ==
    /\ rt["video"].state = "Starting"
    /\ LET m == video_worker_start(IF rt["video"].inited THEN Cur ELSE worker_init(Cur),
                                   avail, ok)
       IN Commit(Hooked(m, "video", "worker_start", after_start(rt["video"], m.exc)))

VideoStop(ok) ==
    /\ rt["video"].state = "Stopping"
    /\ LET m == video_worker_stop(Cur, ok)
       IN Commit(Hooked(m, "video", "worker_stop", after_stop(rt["video"])))

\* worker_run up to its idle wait: it returns, or the wait begins
VideoRunEnter ==
    /\ rt["video"].state = "Running"
    /\ ~rt["video"].idle
    /\ LET r == video_worker_run_enter(Cur)
       IN IF r.idle
          THEN Commit([r.m EXCEPT !.rt["video"].idle = TRUE])
          ELSE Commit(Hooked(r.m, "video", "worker_run", after_run(rt["video"], r.m.exc)))

\* worker_run from the end of its idle wait, which a request to stop cuts short
VideoRunResume(ok) ==
    /\ rt["video"].state = "Running"
    /\ rt["video"].idle
    /\ LET wait == IF rt["video"].wanted THEN RunTimeout ELSE 0
           m == video_worker_run_resume([Cur EXCEPT !.now = @ + wait], ok)
       IN Commit(Hooked(m, "video", "worker_run",
                        after_run([rt["video"] EXCEPT !.idle = FALSE], m.exc)))

\* set_video_enabled without the test of line 117 and the state tests of
\* lines 124 and 127
set_video_enabled_unguarded(m, enabled) ==
    [m EXCEPT !.video.video_enabled = enabled,
              !.rt["video"] = IF enabled
                              THEN [@ EXCEPT !.state = "Starting", !.wanted = TRUE]
                              ELSE [@ EXCEPT !.state = "Stopping", !.wanted = FALSE]]

\* video.py:115-129
set_video_enabled(m, enabled) ==
    IF enabled = m.video.video_enabled
    THEN m
    ELSE [m EXCEPT !.video.video_enabled = enabled,
                   !.rt["video"] = IF enabled THEN start(@) ELSE stop(@)]

\* A client turns the video on or off
SetVideoEnabled(e) ==
    Commit(set_video_enabled(Cur, e))

\* A client asks for a light state while the video service runs
ApiLightState(light, ok) ==
    /\ rt["video"].state = "Running"
    /\ Commit([api_light_state(Cur, light, ok) EXCEPT !.obs.want_light = light])

\* A client asks for a video mode while the video service runs
ApiVideoMode(mode, ok) ==
    /\ rt["video"].state = "Running"
    /\ Commit([api_video_mode(Cur, mode, ok) EXCEPT !.obs.want_mode = mode])

\* What recv meets in the scenarios without a video stream
QuietEvents == {e \in Events(RunTimeout) : e.kind = "packet" => e.chan = 0 /\ ~e.xzyh}

AllOk == [start |-> TRUE, stop |-> TRUE, light |-> TRUE, mode |-> TRUE]

\* The connection attempts of the scenarios: a handshake that completes at once
\* or after a second, a rejection, a silent peer, a port that cannot be bound
Attempts ==
    {oc \in Outcomes : oc.b \in {0, BIND_ATTEMPTS} /\ (oc.kind = "refused" => oc.d = 0)}

\* What one worker_run call meets
Runs ==
    [F : Faults, ok : BOOLEAN, ev : QuietEvents, nap : {0}]
    \cup [F : {{}}, ok : {TRUE}, ev : {e \in QuietEvents : e.kind = "timeout"}, nap : {1}]

----------------------------------------------------------------------------
(* The P2P service under its runtime *)

Next ==
    \/ SvcStart("pppp")
    \/ SvcStop("pppp")
    \/ \E oc \in Attempts : PPPPStart(MaxRestarts, {}, oc)
    \/ \E r \in Runs : PPPPRun(r.F, r.ok, r.ev, r.nap)
    \/ \E F \in Faults : PPPPStop(F)
    \/ PeerClose
    \/ SessionStop

Spec == Init /\ [][Next]_vars

\* The runtime goes on calling worker_run while the service runs
FairSpec == Spec /\ WF_vars(\E r \in Runs : PPPPRun(r.F, r.ok, r.ev, r.nap))

----------------------------------------------------------------------------
(* The video service and the P2P service, each under its runtime *)

\* What recv meets in the video scenarios: nothing, a video frame, a reset
VideoEvents ==
    {e \in Events(RunTimeout) :
        /\ e.kind # "error"
        /\ e.kind = "packet" => e.chan = 1 /\ e.xzyh}

InitVideo ==
    /\ Init
    /\ config = [has_cfg |-> TRUE, ip_addr |-> TRUE, pppp_dump |-> FALSE]

\* One session, a client that turns the video on, a stream of up to MaxFrames
\* frames that come too slowly
NextVideo ==
    \/ SvcStart("pppp")
    \/ \E oc \in {a \in Attempts : a.kind = "connected" /\ a.d = 0} : PPPPStart(1, {}, oc)
    \/ \E ev \in VideoEvents :
          /\ ev.kind = "packet" => /\ video.total_frames < MaxFrames
                                   /\ video.stall_warning_count < MaxWarnings
          /\ PPPPRun({}, TRUE, ev, 0)
    \/ PeerClose
    \/ SetVideoEnabled(TRUE)
    \/ VideoStart(TRUE, AllOk)
    \/ VideoRunEnter
    \/ VideoRunResume(AllOk)
    \/ VideoStop(AllOk)

SpecVideo == InitVideo /\ [][NextVideo]_vars

\* The two services started, stopped and restarted, without a video stream
NextHandlers ==
    \/ SvcStart("pppp")
    \/ SvcStop("pppp")
    \/ \E oc \in {a \in Attempts : a.kind \in {"connected", "refused"} /\ a.d = 0} :
          PPPPStart(MaxRestarts, {}, oc)
    \/ \E ev \in {e \in VideoEvents : e.kind # "packet"} : PPPPRun({}, TRUE, ev, 0)
    \/ PPPPStop({})
    \/ \E e \in BOOLEAN : SetVideoEnabled(e)
    \/ VideoStart(TRUE, AllOk)
    \/ VideoRunEnter
    \/ VideoRunResume(AllOk)
    \/ VideoStop(AllOk)

SpecHandlers == InitVideo /\ [][NextHandlers]_vars

----------------------------------------------------------------------------
(* File transfers on the session of a running P2P service *)

\* A client calls send_file with a file of n bytes
SendFileGet(t, n) ==
    /\ xfer[t].pc = "idle"
    /\ Commit(send_file_get(Cur, t, n))

SendFileWait(t) ==
    /\ xfer[t].pc = "wait"
    /\ Commit(send_file_wait(Cur, t))

SendFileCache(t) ==
    /\ xfer[t].pc = "cache"
    /\ Commit(send_file_cache(Cur, t))

SendFileCall(t) ==
    /\ xfer[t].pc = "call"
    /\ Commit(send_file_call(Cur, t))

SendFileRequest(t, ok) ==
    /\ xfer[t].pc = "request"
    /\ Commit(test_send_file_request(Cur, t, ok))

SendFileBegin(t, ok) ==
    /\ xfer[t].pc = "begin"
    /\ Commit(test_send_file_begin(Cur, t, ok))

SendFileData(t, ok) ==
    /\ xfer[t].pc = "data"
    /\ Commit(test_send_file_data(Cur, t, ok))

SendFileFinally(t) ==
    /\ xfer[t].pc = "finally"
    /\ Commit(send_file_finally(Cur, t))

\* One session and the calls of send_file that clients make on it, each a
\* thread of its own
NextTransfer ==
    \/ SvcStart("pppp")
    \/ \E oc \in {a \in Attempts : a.kind = "connected" /\ a.d = 0} : PPPPStart(1, {}, oc)
    \/ PeerClose
    \/ SessionStop
    \/ \E t \in Transfers, n \in Sizes : SendFileGet(t, n)
    \/ \E t \in Transfers : SendFileWait(t)
    \/ \E t \in Transfers : SendFileCache(t)
    \/ \E t \in Transfers : SendFileCall(t)
    \/ \E t \in Transfers : SendFileRequest(t, TRUE)
    \/ \E t \in Transfers : SendFileBegin(t, TRUE)
    \/ \E t \in Transfers, ok \in BOOLEAN : SendFileData(t, ok)
    \/ \E t \in Transfers : SendFileFinally(t)

SpecTransfer == InitVideo /\ [][NextTransfer]_vars

\* One call of send_file while the runtime goes on calling the P2P service's
\* worker_run on the session the call uses
NextBorrow ==
    \/ SvcStart("pppp")
    \/ \E oc \in {a \in Attempts : a.kind = "connected" /\ a.d = 0} : PPPPStart(1, {}, oc)
    \/ \E ev \in {e \in VideoEvents : e.kind # "packet"} :
          /\ Len(wire) < MaxWire
          /\ PPPPRun({}, TRUE, ev, 0)
    \/ \E n \in Sizes : SendFileGet(1, n)
    \/ SendFileWait(1)
    \/ SendFileCache(1)
    \/ SendFileCall(1)
    \/ SendFileRequest(1, TRUE)
    \/ SendFileBegin(1, TRUE)
    \/ SendFileData(1, TRUE)
    \/ SendFileFinally(1)

SpecBorrow == InitVideo /\ [][NextBorrow]_vars

\* One call of send_file whose emissions may each fail, on a session that the
\* peer may close and whose receive worker may end
NextAbort ==
    \/ SvcStart("pppp")
    \/ \E oc \in {a \in Attempts : a.kind = "connected" /\ a.d = 0} : PPPPStart(1, {}, oc)
    \/ PeerClose
    \/ SessionStop
    \/ \E n \in Sizes : SendFileGet(1, n)
    \/ SendFileWait(1)
    \/ SendFileCache(1)
    \/ SendFileCall(1)
    \/ \E ok \in BOOLEAN : SendFileRequest(1, ok)
    \/ \E ok \in BOOLEAN : SendFileBegin(1, ok)
    \/ \E ok \in BOOLEAN : SendFileData(1, ok)
    \/ SendFileFinally(1)

SpecAbort == InitVideo /\ [][NextAbort]_vars

\* One call of send_file on a session that the peer may close, while the
\* runtime goes on calling the hooks of the P2P service; recv times out
NextWait ==
    \/ SvcStart("pppp")
    \/ SvcStop("pppp")
    \/ \E oc \in {a \in Attempts : a.kind = "connected" /\ a.d = 0} : PPPPStart(1, {}, oc)
    \/ \E ok \in BOOLEAN, ev \in {e \in QuietEvents : e.kind = "timeout"} :
          /\ Len(wire) < MaxWire
          /\ PPPPRun({}, ok, ev, 0)
    \/ PPPPStop({})
    \/ PeerClose
    \/ SessionStop
    \/ SendFileGet(1, 1)
    \/ SendFileWait(1)
    \/ SendFileCache(1)
    \/ SendFileCall(1)
    \/ SendFileRequest(1, TRUE)
    \/ SendFileBegin(1, TRUE)
    \/ SendFileData(1, TRUE)
    \/ SendFileFinally(1)

SpecWait == InitVideo /\ [][NextWait]_vars

\* The thread of the call is scheduled
FairSpecWait == SpecWait /\ WF_vars(SendFileWait(1))

----------------------------------------------------------------------------
(* Packets delivered to the handlers of several consumers *)

\* A consumer other than the video service registers a handler
OtherRegister ==
    /\ Len(pppp.handlers) < MaxHandlers
    /\ Commit([Cur EXCEPT !.pppp.handlers = Append(@, "other")])

\* The packets of the delivery scenarios: a handler may raise, another worker
\* may change the handler list during the delivery
DeliveryEvents ==
    [kind : {"packet"}, chan : {0, 1}, xzyh : BOOLEAN, wait : {0},
     raises : BOOLEAN, race : {"none", "append", "remove", "clear"}]

NextDeliver ==
    \/ SvcStart("pppp")
    \/ \E oc \in {a \in Attempts : a.kind = "connected" /\ a.d = 0} : PPPPStart(1, {}, oc)
    \/ SetVideoEnabled(TRUE)
    \/ VideoStart(TRUE, AllOk)
    \/ OtherRegister
    \/ \E ev \in DeliveryEvents :
          /\ video.total_frames < MaxFrames
          /\ video.stall_warning_count < MaxWarnings
          /\ ev.race = "append" => Len(pppp.handlers) < MaxHandlers
          /\ PPPPRun({}, TRUE, ev, 0)
    \/ \E ev \in {e \in QuietEvents : e.kind = "timeout"} : PPPPRun({}, TRUE, ev, 0)

SpecDeliver == InitVideo /\ [][NextDeliver]_vars

----------------------------------------------------------------------------
(* api_command called on one worker while the P2P service's worker runs *)

CommandCall ==
    /\ call.pc \in {"idle", "returned", "raised"}
    /\ Commit(api_command_enter(Cur))

CommandIsNotNone ==
    /\ call.pc = "is_not_none"
    /\ Commit(connected_is_not_none(Cur))

CommandStopped ==
    /\ call.pc = "stopped"
    /\ Commit(connected_stopped(Cur))

CommandState ==
    /\ call.pc = "state"
    /\ Commit(connected_state(Cur))

CommandSend(ok) ==
    /\ call.pc = "send"
    /\ Commit(api_command_send(Cur, ok))

NextCommand ==
    \/ SvcStart("pppp")
    \/ \E oc \in {a \in Attempts : a.kind = "connected" /\ a.d = 0} :
          PPPPStart(MaxRestarts, {}, oc)
    \/ \E ev \in {e \in VideoEvents : e.kind # "packet"} : PPPPRun({}, TRUE, ev, 0)
    \/ PeerClose
    \/ SessionStop
    \/ CommandCall
    \/ CommandIsNotNone
    \/ CommandStopped
    \/ CommandState
    \/ \E ok \in BOOLEAN : CommandSend(ok)

SpecCommand == InitVideo /\ [][NextCommand]_vars

----------------------------------------------------------------------------
(* The heartbeats of a session whose packets come at once or late *)

\* What recv meets: a packet at once or after PacketWait seconds, or nothing
HeartbeatEvents ==
    [kind : {"packet"}, chan : {0}, xzyh : {FALSE}, wait : {0, PacketWait},
     raises : {FALSE}, race : {"none"}]
    \cup {e \in QuietEvents : e.kind = "timeout"}

NextHeartbeat ==
    \/ SvcStart("pppp")
    \/ SvcStop("pppp")
    \/ \E oc \in {a \in Attempts : a.kind = "connected"} : PPPPStart(MaxRestarts, {}, oc)
    \/ \E ok \in BOOLEAN, ev \in HeartbeatEvents : PPPPRun({}, ok, ev, 0)
    \/ PPPPStop({})

SpecHeartbeat == InitVideo /\ [][NextHeartbeat]_vars

----------------------------------------------------------------------------
(* A video stream on a session that stays connected *)

NextStall ==
    \/ SvcStart("pppp")
    \/ \E oc \in {a \in Attempts : a.kind = "connected" /\ a.d = 0} : PPPPStart(1, {}, oc)
    \/ \E ev \in {e \in VideoEvents : e.kind # "reset"} :
          /\ ev.kind = "packet" => /\ video.total_frames < MaxFrames
                                   /\ video.stall_warning_count < MaxWarnings
          /\ PPPPRun({}, TRUE, ev, 0)
    \/ SetVideoEnabled(TRUE)
    \/ VideoStart(TRUE, AllOk)
    \/ VideoRunEnter
    \/ \E ok \in {o \in Oks : o.light /\ o.mode} : VideoRunResume(ok)
    \/ VideoStop(AllOk)

SpecStall == InitVideo /\ [][NextStall]_vars

----------------------------------------------------------------------------
(* Light and mode requests, and a video service that is restarted *)

Lights == {"on", "off"}
Modes == {"sd", "hd"}

NextRestore ==
    \/ SvcStart("pppp")
    \/ \E oc \in {a \in Attempts : a.kind = "connected" /\ a.d = 0} : PPPPStart(1, {}, oc)
    \/ PeerClose
    \/ \E e \in BOOLEAN : SetVideoEnabled(e)
    \/ VideoStart(TRUE, AllOk)
    \/ VideoRunEnter
    \/ VideoRunResume(AllOk)
    \/ VideoStop(AllOk)
    \/ \E light \in Lights, ok \in BOOLEAN : ApiLightState(light, ok)
    \/ \E mode \in Modes, ok \in BOOLEAN : ApiVideoMode(mode, ok)

SpecRestore == InitVideo /\ [][NextRestore]_vars

----------------------------------------------------------------------------
(* The P2P service through a row of failed connection attempts *)

MaxAttempts == 7     \* connection attempts of one run of the retry scenario

\* A second passes while the P2P service is stopped
Rest ==
    /\ rt["pppp"].state = "Stopped"
    /\ Commit([Cur EXCEPT !.now = @ + 1])

\* The first MaxRestarts attempts end in any way, the later ones fail; the
\* service is stopped and started from outside and worker_run finds nothing
NextRetry ==
    \/ SvcStart("pppp")
    \/ SvcStop("pppp")
    \/ \E oc \in Attempts : PPPPStart(MaxRestarts, {}, oc)
    \/ \E oc \in {a \in Attempts : a.kind # "connected"} : PPPPStart(MaxAttempts, {}, oc)
    \/ \E r \in {x \in Runs : x.F = {} /\ x.ok /\ x.ev.kind = "timeout"} :
           PPPPRun(r.F, r.ok, r.ev, r.nap)
    \/ PPPPStop({})
    \/ Rest

SpecRetry == InitVideo /\ [][NextRetry]_vars

----------------------------------------------------------------------------
(* A rate limiter and the chunks its caller sends *)

\* The chunks handed to wait: a block, half a block
ChunkSizes == {BLOCKSIZE, BLOCKSIZE \div 2}

\* The caller has a chunk of n bytes admitted
LimiterWait(n) ==
    Commit([Cur EXCEPT !.limiter = RateLimiter_wait(@, n)])

\* A tick passes between two calls
LimiterTick ==
    Commit([Cur EXCEPT !.limiter = elapse(@, 1)])

InitLimiter ==
    /\ InitVideo
    /\ \E r \in 1..MaxRate : limiter = RateLimiterInit(r)

NextLimiter ==
    \/ \E n \in ChunkSizes : LimiterWait(n)
    \/ LimiterTick

SpecLimiter == InitLimiter /\ [][NextLimiter]_vars

----------------------------------------------------------------------------
(* Properties of the P2P service under its runtime *)

\* The step just taken was the hook h of service s
Ran(s, h) == obs.svc = s /\ obs.hook = h

\* What a failed connection attempt raises
AttemptErrors == {"TimeoutError", "ConnectionRefusedError", "OSError"}

\* The delay C3 gives for the attempt after k failed ones in a row
ClaimedDelay(k) == Min(INITIAL_RETRY_DELAY * Pow2(k - 1), MAX_RETRY_INTERVAL)

\* C3, as claimed: after k >= 1 failed attempts in a row, a call of
\* worker_start that comes no more than MAX_RETRY_INTERVAL after the last
\* attempt makes the next attempt exactly when 2, 4, 8, 16, 30, 30, ... seconds
\* (for k = 1, 2, ...) have passed since that attempt.
C3_BackoffSequence ==
    /\ Ran("pppp", "worker_start") /\ obs.interval > 0
    /\ obs.streak_prev >= 1 /\ obs.gap <= MAX_RETRY_INTERVAL
    => (obs.attempt <=> obs.gap >= ClaimedDelay(obs.streak_prev))

\* C4, as claimed: if worker_run is called again and again, then whenever
\* restart_pending is set and the service is not stopping, a later worker_run
\* raises ServiceRestart.
C4_RestartRaised ==
    ([]<>Ran("pppp", "worker_run"))
        => ((pppp.restart_pending /\ ~pppp.stopping)
               ~> (Ran("pppp", "worker_run") /\ obs.exc = "ServiceRestart"))

\* C5, as claimed: worker_run makes the heartbeat-loss teardown exactly when the
\* third send_heartbeat call in a row has failed on the session, and
\* heartbeat_fail_count is the number of send_heartbeat calls that failed in a
\* row on the session held.
C5_HeartbeatLoss ==
    /\ obs.teardown = "heartbeat" => obs.hb_row >= HEARTBEAT_FAIL_THRESHOLD
    /\ obs.hb = "failed" /\ obs.hb_row >= HEARTBEAT_FAIL_THRESHOLD
           => obs.teardown = "heartbeat"
    /\ obs.teardown \in {"none", "heartbeat"}
           => (Ran("pppp", "worker_run") /\ pppp.api # None
                  => pppp.heartbeat_fail_count = obs.hb_row)

\* C7, as claimed: after a worker_start that failed in its connection attempt
\* no socket, receive worker or dump writer of the attempt is left, and a
\* socket is open only while the service holds its session.
C7_FailedStartTornDown ==
    /\ Ran("pppp", "worker_start") /\ obs.exc \in AttemptErrors
           => res.socks = 0 /\ res.threads = 0 /\ res.dumpers = 0
    /\ res.socks > 0 => pppp.api # None /\ sess[pppp.api].sock = "open"

\* What C8 says of the service after a start
Started ==
    /\ pppp.api # None
    /\ sess[pppp.api].state = "Connected"
    /\ pppp.retry_count = 0
    /\ pppp.heartbeat_fail_count = 0
    /\ pppp.last_successful_connection = Horizon

\* C8, as claimed: whenever worker_start returns normally the service holds a
\* Connected session, both counters are 0 and last_successful_connection is the
\* present; after the first start that connected, total_restarts is 1.
C8_EveryReturn ==
    Ran("pppp", "worker_start") /\ obs.exc = "none"
        => Started /\ (obs.wins = 1 => pppp.total_restarts = 1)

\* C8, amended: whenever worker_start returns normally after making a
\* connection attempt, the service holds a Connected session, both counters are
\* 0 and last_successful_connection is the present; total_restarts counts the
\* attempts, failed ones included.
C8_AttemptedStart ==
    Ran("pppp", "worker_start") /\ obs.exc = "none" /\ obs.attempt
        => Started /\ pppp.total_restarts = obs.fails + obs.wins

\* The first start that connects comes after an attempt that failed
C8_StartedAfterFailure ==
    /\ Ran("pppp", "worker_start") /\ obs.exc = "none" /\ obs.attempt
    /\ obs.wins = 1 /\ obs.fails = 1

----------------------------------------------------------------------------
(* Properties of the two services together *)

\* C1, as claimed: when cleanup_connection returns, the service holds no
\* session, its handler list is empty and the socket of the session it held is
\* closed.
C1_CleanupPostcondition ==
    obs.cleanup.called
        => /\ obs.cleanup.api = None
           /\ obs.cleanup.handlers = 0
           /\ obs.cleanup.sock # "open"

\* The video worker's worker_run raised ServiceRestart to its runtime
VideoRestart == Ran("video", "worker_run") /\ obs.exc = "ServiceRestart"

\* C6, as claimed: the video worker raises ServiceRestart to its runtime only
\* for a stream that did not start in 10 s, a stall that outlasted the recovery,
\* a new session or a third low-rate window in a row, and does raise it when a
\* frame completes the third low-rate window in a row.
C6_RestartIff ==
    /\ VideoRestart =>
          \/ obs.why \in {"start_timeout", "stall", "new_session"}
          \/ pppp.api # video.api_id
    /\ obs.low_fps => VideoRestart

\* The video handler's entries in the P2P service's handler list
Registered == Len(SelectSeq(pppp.handlers, LAMBDA h : h = "video"))

----------------------------------------------------------------------------
(* Properties of the file transfers *)

\* What send_file sends: the command and the frames of the bulk channel
TransferKinds == {"SEND_FILE", "BEGIN", "DATA", "END"}

\* What transfer t has emitted, in order
Own(t) == SelectSeq(wire, LAMBDA f : f.kind \in TransferKinds /\ f.src = t)

\* The sum of the payload lengths of the frames fs
RECURSIVE SumLen(_)
SumLen(fs) == IF fs = <<>> THEN 0 ELSE Head(fs).len + SumLen(Tail(fs))

\* The number of blocks that n bytes fill, the last one possibly in part
Blocks(n) == (n + BLOCKSIZE - 1) \div BLOCKSIZE

\* Call t has sent END without raising: its transfer is complete
Completed(t) == xfer[t].pc \in {"finally", "done"} /\ xfer[t].exc = "none"

\* C2: a send_file call that completes on N bytes of data has emitted one
\* SEND_FILE command carrying the transfer id, then one BEGIN frame, then
\* ceil(N / 32768) DATA frames whose lengths sum to N and whose offsets are
\* 0, 32768, 65536, ..., then one END frame without payload, and nothing else.
C2_EmissionOrder ==
    \A t \in Transfers :
        Completed(t) =>
            LET own == Own(t)
                N == xfer[t].data[1]
                k == Blocks(N)
            IN /\ Len(own) = k + 3
               /\ own[1].kind = "SEND_FILE" /\ own[1].len = TRANSFER_ID_LEN
               /\ own[2].kind = "BEGIN"
               /\ \A i \in 1..k :
                     /\ own[2 + i].kind = "DATA"
                     /\ own[2 + i].pos = (i - 1) * BLOCKSIZE
               /\ SumLen(SubSeq(own, 3, k + 2)) = N
               /\ own[k + 3].kind = "END" /\ own[k + 3].len = 0

\* A call has returned after a transfer of a block and a byte, made while the
\* other call was emitting too
C2_TwoFramesSent ==
    \E t \in Transfers :
        /\ xfer[t].pc = "done"
        /\ xfer[t].data = Bytes((MaxChunks - 1) * BLOCKSIZE + 1)
        /\ Len(wire) > Len(Own(t))

\* A frame of the bulk channel
Bulk(f) == f.kind \in {"BEGIN", "DATA", "END"}

\* C10, as claimed: the BEGIN, DATA and END frames of one transfer are never
\* interleaved with those of another: no bulk frame of one transfer lies
\* between two bulk frames of another.
C10_NoInterleaving ==
    \A i, j, k \in 1..Len(wire) :
        /\ i < j /\ j < k
        /\ Bulk(wire[i]) /\ Bulk(wire[j]) /\ Bulk(wire[k])
        /\ wire[i].src = wire[k].src
        => wire[j].src = wire[i].src

\* Transfer t is between its SEND_FILE command and its END frame
Borrowed(t) == xfer[t].pc \in {"begin", "data"}

\* C11, as claimed: while a transfer is between its SEND_FILE command and its
\* END frame no worker_run of the P2P service tears the session down, and
\* nothing but the transfer's own frames is sent between two frames of the
\* transfer.
C11_BorrowExclusive ==
    /\ \A t \in Transfers : Borrowed(t) => obs.teardown = "none"
    /\ \A i, j, k \in 1..Len(wire) :
          /\ i < j /\ j < k
          /\ wire[i].kind \in TransferKinds /\ wire[k].kind \in TransferKinds
          /\ wire[k].src = wire[i].src
          => wire[j].kind \in TransferKinds

\* The send_file calls that have been made and have not yet returned or raised
InProgress == {t \in Transfers : xfer[t].pc \notin {"idle", "done", "failed"}}

\* C12, as claimed: when a send_file call has returned or raised, the 'pppp'
\* service it took has been put back (the references handed out are those of
\* the calls still in progress), and with no other call in progress the cached
\* file is None.
C12_ReleasedOnExit ==
    \A t \in Transfers :
        xfer[t].pc \in {"done", "failed"} =>
            /\ refs = Cardinality(InProgress)
            /\ InProgress = {} => ft.cached_file = NoBytes

----------------------------------------------------------------------------
(* Properties of the rate limiter *)

\* The bytes admitted in the second that ends with the present tick
RecentBytes == limiter.recent[1] + limiter.recent[2] + limiter.recent[3] + limiter.recent[4]

\* C13, as claimed: the bytes admitted in any one second are at most
\* R * 10^6 / 8 and one chunk more, R being the rate in Mbps.
C13_WindowBound ==
    RecentBytes <= ((limiter.rate_mbps * 1000000) \div 8) + BLOCKSIZE

----------------------------------------------------------------------------
(* Properties of the delivery of packets *)

\* C14: for a packet worker_run received, process is called first and then
\* each handler that was registered when the delivery began, once and in
\* registration order, whatever a handler raises and whatever another worker
\* does to the list meanwhile; the delivery tears nothing down, leaves
\* heartbeat_fail_count as it was, does not set restart_pending, and what
\* worker_run raises after it is only the ServiceRestart that was pending.
C14_DeliveryToSnapshot ==
    obs.log # <<>> =>
        /\ obs.log = <<"process">> \o obs.snapshot
        /\ obs.teardown = "none" /\ ~obs.cleanup.called
        /\ pppp.heartbeat_fail_count = obs.pre.heartbeat_fail_count
        /\ pppp.restart_pending => obs.pre.restart_pending
        /\ obs.exc # "none" => obs.exc = "ServiceRestart" /\ obs.pre.restart_pending

\* A packet has gone to two handlers of which the first raised, while another
\* worker took a handler off the list
C14_RaisedAndRaced ==
    /\ Len(obs.snapshot) >= 2
    /\ obs.snapshot[1] = "other" /\ obs.snapshot[2] = "video"
    /\ obs.swallowed = "HandlerError"
    /\ Len(pppp.handlers) < Len(obs.snapshot)
    /\ Len(obs.log) = Len(obs.snapshot) + 1

----------------------------------------------------------------------------
(* Properties of api_command *)

\* C15, as claimed: the only error the connection check of api_command raises
\* is the not-connected error, whatever cleanup_connection does on another
\* worker meanwhile.
C15_NotConnectedOnly ==
    call.pc = "raised" /\ call.at = "check" => call.exc = "ConnectionError"

----------------------------------------------------------------------------
(* Properties of the heartbeats *)

\* worker_run has run on a session that was Connected and stayed so
RanConnected ==
    /\ Ran("pppp", "worker_run")
    /\ obs.hb_gap >= 0
    /\ obs.teardown = "none"
    /\ connected(Cur)

\* C16: on a session that stays connected, worker_run attempts a heartbeat
\* exactly when HEARTBEAT_INTERVAL or more has passed since the session was
\* connected or, if later, since the last attempt on it: never earlier, and in
\* the first call that comes as late as that.
C16_HeartbeatCadence ==
    RanConnected => (obs.hb # "none" <=> obs.hb_gap >= HEARTBEAT_INTERVAL)

\* worker_run has sent a heartbeat on a connected session, HEARTBEAT_INTERVAL
\* or more after the connection or the attempt before, and has then waited for
\* a packet that came late
C16_HeartbeatSent ==
    /\ RanConnected
    /\ obs.hb = "sent"
    /\ obs.hb_gap >= HEARTBEAT_INTERVAL
    /\ pppp.last_heartbeat = Horizon - PacketWait

----------------------------------------------------------------------------
(* Properties of a stalled video stream *)

\* The video service runs with a stream that has had its first frame
Streaming ==
    /\ rt["video"].state = "Running"
    /\ video.video_enabled
    /\ video.first_frame_received

\* What worker_run does about a stall, each in its time and in its order
StallOrder ==
    /\ obs.stall_warned => obs.stall_age > STALL_THRESHOLD
    /\ obs.recovered => obs.stall_warned /\ obs.stall_age > 2 * STALL_THRESHOLD
    /\ VideoRestart /\ obs.framed /\ obs.why \in {"stall", "start_timeout"} =>
          /\ obs.episode = "recovered"
          /\ obs.stall_age >= 3 * STALL_THRESHOLD

\* The runtime keeps calling the video worker_run: it returns again and again
VideoKeepsRunning ==
    /\ []<>Ran("video", "worker_run")
    /\ []<>~Ran("video", "worker_run")

SawNewSession ==
    /\ Ran("video", "worker_run") /\ obs.stall_age >= 0
    /\ video.video_enabled
    /\ connected(Cur)
    /\ pppp.api # video.api_id

\* C18, as claimed: whatever state the video service is in, a worker_run that
\* finds a connected session other than the one recorded at worker_start while
\* video is enabled raises ServiceRestart, also when the service was started
\* while the P2P service had no session.
C18_NewSessionRestarts == SawNewSession => VideoRestart

\* C19: in every reachable state, for e true and false, a second
\* set_video_enabled(e) leaves the state the first one left, the runtime state
\* of the service included (nothing is started or stopped); and
\* set_video_enabled(true) changes nothing when video is enabled and the
\* service runs.
C19_SetVideoEnabledIdempotent ==
    /\ \A e \in BOOLEAN :
          LET once == set_video_enabled(Cur, e)
          IN set_video_enabled(once, e) = once
    /\ video.video_enabled /\ rt["video"].state = "Running"
          => set_video_enabled(Cur, TRUE) = Cur

\* Video was enabled by set_video_enabled(true), the service runs, and
\* set_video_enabled(false) would stop it
C19_EnabledAndRunning ==
    /\ video.video_enabled /\ rt["video"].state = "Running"
    /\ set_video_enabled(Cur, FALSE).rt["video"] # rt["video"]

\* C20: in every reachable state and whatever steps fail, cleanup_connection
\* returns without raising, and a second call right after it returns without
\* raising too, sends no Close packet and leaves the service, the sessions,
\* the sockets, threads and dumpers and the clock as the first call left them.
C20_CleanupIdempotent ==
    \A F1 \in Faults, F2 \in Faults :
        LET once == cleanup_connection(Cur, F1)
            twice == cleanup_connection(once, F2)
        IN /\ once.exc = "none" /\ twice.exc = "none"
           /\ ~twice.obs.cleanup.close
           /\ twice.pppp = once.pppp
           /\ twice.sess = once.sess
           /\ twice.res = once.res
           /\ twice.now = once.now

\* cleanup_connection has returned from a session it held, having sent a Close
\* packet and failed to close the socket
C20_CleanedWithFault ==
    /\ obs.cleanup.called /\ obs.cleanup.close
    /\ obs.cleanup.sock = "open"
    /\ pppp.api = None

\* The emission call t was at has failed with a transport error
Aborted(t) == xfer[t].exc = "TransportError"

\* C21: the step in which an emission of a transfer fails with a transport
\* error sends nothing, no later step sends a frame of that transfer, and the
\* call ends by raising the error: it never returns normally.
C21_AbortOnError ==
    /\ [](\A t \in Transfers :
            Aborted(t) => xfer[t].pc \in {"finally", "failed"})
    /\ [][\A t \in Transfers :
            Aborted(t)' => Own(t)' = Own(t)]_vars

\* A DATA frame failed with a transport error after the first DATA frame was
\* sent, and the call has raised
C21_FailedMidway ==
    /\ Aborted(1) /\ xfer[1].pc = "failed"
    /\ Len(Own(1)) = 3
    /\ xfer[1].pos < xfer[1].data[1]

\* Call t is in a wait loop: that of FileTransferService.send_file, or that
\* of test_transfer.send_file with the session not Connected
Waiting(t) ==
    \/ xfer[t].pc = "wait"
    \/ xfer[t].pc = "request" /\ wait_connected(Cur, xfer[t].api) # "go"

\* The runtime keeps calling the P2P service's worker_run: it returns again
\* and again
P2PKeepsRunning ==
    /\ []<>Ran("pppp", "worker_run")
    /\ []<>~Ran("pppp", "worker_run")

StartedConnected ==
    /\ Ran("video", "worker_start") /\ obs.exc = "none"
    /\ video.pppp
    /\ connected(Cur)

\* C23, as claimed: a worker_start of the video service on a connected
\* session, after requests made while the service ran before, sends
\* LIGHT_STATE_SWITCH with the light state asked for last and LIVE_MODE_SET
\* with the video mode asked for last, whether or not the session was
\* connected when they were asked for.
C23_Reapplied ==
    StartedConnected =>
        /\ obs.want_light # "None" =>
              \E i \in 1..Len(obs.cmds) : obs.cmds[i] = <<"LIGHT_STATE_SWITCH", obs.want_light>>
        /\ obs.want_mode # "None" =>
              \E i \in 1..Len(obs.cmds) : obs.cmds[i] = <<"LIVE_MODE_SET", obs.want_mode>>

\* What the four video commands leave when they are called now, whether
\* their send would succeed or not
VideoCommandCalls ==
    {api_start_live(Cur, ok) : ok \in BOOLEAN}
    \cup {api_stop_live(Cur, ok) : ok \in BOOLEAN}
    \cup {api_light_state(Cur, light, ok) : light \in Lights, ok \in BOOLEAN}
    \cup {api_video_mode(Cur, mode, ok) : mode \in Modes, ok \in BOOLEAN}

\* C24: in every reachable state in which the P2P service is not connected,
\* api_start_live, api_stop_live, api_light_state and api_video_mode return
\* without raising and without having sent a command.
C24_SilentWhenDisconnected ==
    ~connected(Cur) =>
        \A r \in VideoCommandCalls : r.exc = "none" /\ r.obs.sent = <<>>

\* A running video service was asked for a light state while the P2P service
\* held a session that the peer had closed, and has sent and kept nothing
C24_AskedWhileClosed ==
    /\ ~connected(Cur) /\ pppp.api # None
    /\ video.pppp
    /\ obs.want_light # "None" /\ obs.sent = <<>>
    /\ video.saved_light_state = "None"

\* C25, as claimed: whenever worker_start has run for a printer without
\* ip_addr it has raised ServiceStopped, no socket and no session exist, and
\* the runtime has marked the service Stopped with no restart scheduled.
C25_NoAddressStops ==
    Ran("pppp", "worker_start") /\ config.has_cfg /\ ~config.ip_addr =>
        /\ obs.exc = "ServiceStopped"
        /\ res.socks = 0 /\ pppp.api = None
        /\ rt["pppp"].state = "Stopped" /\ ~rt["pppp"].wanted

\* C26, as claimed: a frame-rate check of the video handler outside a quality
\* change adds one to stall_warning_count below 3 fps and sets it to 0 from
\* 5 fps on, and raises ServiceRestart exactly when that makes three in a
\* row; within a quality change it leaves the count alone; and every check
\* leaves the window empty and beginning at the present.
C26_FrameRateCheck ==
    obs.fps_check # "none" =>
        /\ obs.fps_check = "low" => video.stall_warning_count = obs.warnings_before + 1
        /\ obs.fps_check = "ok" => video.stall_warning_count = 0
        /\ obs.fps_check = "skip" => video.stall_warning_count = obs.warnings_before
        /\ obs.low_fps <=> /\ obs.fps_check = "low"
                           /\ video.stall_warning_count = STALL_WARNING_LIMIT
        /\ video.frame_count = 0
        /\ video.last_frame_check = Horizon

\* The place of each step in the order of cleanup_connection
StepRank(step) ==
    CASE step = "close" -> 1
      [] step = "stop" -> 2
      [] step = "channels" -> 3
      [] step = "socket" -> 4
      [] step = "handlers" -> 5
      [] step = "dumper" -> 6
      [] OTHER -> 7

InOrder(log) == \A i, j \in 1..Len(log) : i < j => StepRank(log[i]) <= StepRank(log[j])

Stopping == [Cur EXCEPT !.pppp.stopping = TRUE]

\* C28: a worker_run of the P2P service that finds the stopping flag set returns
\* with nothing changed (no heartbeat, no packet received or dispatched, no
\* cleanup_connection, restart_pending as it was, no exception), whatever it
\* would have met; and worker_stop returns with the flag clear and no session
\* held.
C28_StoppingFrame ==
    /\ \A r \in Runs : worker_run(Stopping, RunTimeout, r.F, r.ok, r.ev, r.nap) = Stopping
    /\ Ran("pppp", "worker_stop") => ~pppp.stopping /\ pppp.api = None

\* C28, witness: worker_stop has closed the socket of the session it held and
\* let go of it, and a worker_run that found the flag set would do nothing
C28_StopsHeldSession ==
    /\ Ran("pppp", "worker_stop")
    /\ obs.cleanup.sock = "closed"
    /\ ~pppp.stopping /\ pppp.api = None
    /\ \A r \in Runs : worker_run(Stopping, RunTimeout, r.F, r.ok, r.ev, r.nap) = Stopping

\* A connected session whose heartbeat is due: worker_run acts on it unless the
\* flag is set
DueWhileStopping ==
    /\ connected(Cur) /\ heartbeat_due(Cur)
    /\ \A r \in Runs : worker_run(Cur, RunTimeout, r.F, r.ok, r.ev, r.nap) # Cur


\* A worker_run of the video service has come to its start-timeout check
\* (video.py:245-246)
AtStartTimeout ==
    /\ Ran("video", "worker_run")
    /\ obs.stall_age >= 0
    /\ ~video.first_frame_received

\* C29, as claimed: whenever worker_run of the video service comes to the
\* start-timeout check, stream_start_time is set, and the call ends normally
\* or with ServiceRestart.
C29_StartTimeSet ==
    AtStartTimeout =>
        /\ video.stream_start_time # None
        /\ obs.exc \in {"none", "ServiceRestart"}


\* A START_LIVE command was sent: a stream is started
StreamStarted == \E i \in 1..Len(obs.sent) : obs.sent[i] = "START_LIVE"

\* C30, as claimed: whenever a stream is started or restarted, the count of
\* consecutive low frame-rate checks is 0, so that the stream needs
\* STALL_WARNING_LIMIT low checks in a row before the next ServiceRestart.
C30_WarningsResetAtStart == StreamStarted => video.stall_warning_count = 0


\* C31, as claimed: with set_video_enabled the only caller of start and stop of
\* the video service, no reachable state has video_enabled true while the
\* service rests in Stopped with no start under way (the state that the claimed
\* "eventually Running" can never leave).
C31_EnabledNotStopped ==
    video.video_enabled => rt["video"].state # "Stopped"


\* worker_start of the P2P service has just gone past its backoff check
\* (pppp.py:237): the time since the last attempt was not below the interval
PastBackoff == Ran("pppp", "worker_start") /\ obs.gap >= obs.interval

\* C32: retry_count stays between 0 and MAX_RETRY_COUNT, the interval that
\* get_retry_interval computes and the interval of the count itself stay
\* between INITIAL_RETRY_DELAY and MAX_RETRY_INTERVAL, and total_restarts
\* grows by one in a worker_start that goes past its backoff check and stays
\* as it is in every other step.
C32_RetryBounds ==
    /\ [](/\ pppp.retry_count \in 0..MAX_RETRY_COUNT
          /\ retry_interval(pppp.retry_count)
                \in INITIAL_RETRY_DELAY..MAX_RETRY_INTERVAL
          /\ get_retry_interval(Cur).interval
                \in INITIAL_RETRY_DELAY..MAX_RETRY_INTERVAL
          /\ Ran("pppp", "worker_start")
                => obs.interval \in INITIAL_RETRY_DELAY..MAX_RETRY_INTERVAL)
    /\ [][pppp.total_restarts' =
            pppp.total_restarts + (IF PastBackoff' THEN 1 ELSE 0)]_vars

\* C32, witness: a fifth attempt in a row, made when the interval of
\* MAX_RETRY_INTERVAL had just run out
C32_FifthAttempt ==
    /\ PastBackoff
    /\ pppp.retry_count = MAX_RETRY_COUNT
    /\ obs.interval = MAX_RETRY_INTERVAL
    /\ pppp.total_restarts >= MAX_RETRY_COUNT


====
